---------------------------- MODULE Spec2Model ----------------------------
(***************************************************************************)
(* Pulse-by-pulse stream-cipher simulation: a 32-bit LFSR generator and    *)
(* the XOR encrypt/decrypt session (EncryptionSystem component) that       *)
(* drives a transmit and a receive instance of it.                         *)
(*                                                                         *)
(* A register is a function 0..31 -> {0,1}, index 0 = least significant    *)
(* bit: exactly the 32 bits of the unsigned value the code holds.          *)
(***************************************************************************)
EXTENDS Integers, Sequences, FiniteSets, TLC

VARIABLES
    variant,        \* which hooks/use-lfsr build the session imports
    switches,       \* DIP switch input, index 0 = MSB of the byte
    lfsrTx,         \* transmit register
    lfsrRx,         \* receive register
    bitCursor,      \* bits of the current byte already sent
    originalByte,
    encryptedByte,
    decryptedByte,
    pulses,         \* PulseRecord history of the current byte
    isSynced,
    desyncWarning,
    bytesDone,      \* units completed since construction/reset (bookkeeping)
    lastCall,       \* the trigger fired last and whether it was accepted
    initialSeed,    \* the seed the useLfsr instances are constructed with
    generators,     \* the state of each useLfsr instance
    seedPanel,      \* the visualizer's seed panel: showSeed and seedHex
    animation,      \* the animated component's send: isSimulating, steps,
                    \* currentStep, intervalRef, the armed intervals
    twin            \* a second pulse-by-pulse session, given the same
                    \* operations as the first

session == <<switches, lfsrTx, lfsrRx, bitCursor, originalByte,
             encryptedByte, decryptedByte, pulses, isSynced, desyncWarning>>

vars == <<variant, switches, lfsrTx, lfsrRx, bitCursor, originalByte,
          encryptedByte, decryptedByte, pulses, isSynced, desyncWarning,
          bytesDone, lastCall, initialSeed, generators, seedPanel,
          animation, twin>>

\* ------------------------------------------------------------------ bounds

\* units that may be completed (handleNextByte) between two resets
MaxBytes == 1

\* handlePulse invocations that may be issued from one render
MaxBurst == 2

\* steps a useLfsr instance may take between two resets
MaxSteps == 4

\* steps of the one generator of the long run, past the outputStream cap
MaxRun == 66

\* ------------------------------------------------------- program constants

LFSR_SIZE == 32

LFSR_TAPS == <<1, 5, 6, 31>>

\* Math.floor(Math.random() * 8) ranges over 0 .. DesyncSpread - 1
DesyncSpread == 8

\* entries the hook keeps in outputStream
StreamCap == 64

\* useState(500): ms between auto-run steps
DefaultSpeed == 500

\* setInterval(..., 400): ms between two steps of the send animation
AnimationPeriod == 400

Bit == {0, 1}

Register == [0 .. LFSR_SIZE - 1 -> Bit]

\* a binary literal, most significant digit first, as a register
FromBinary(digits) == [i \in 0 .. LFSR_SIZE - 1 |-> digits[LFSR_SIZE - i]]

\* 0b10110011100011110000111110000011
DEFAULT_SEED ==
    FromBinary(<<1,0,1,1, 0,0,1,1, 1,0,0,0, 1,1,1,1,
                 0,0,0,0, 1,1,1,1, 1,0,0,0, 0,0,1,1>>)

\* [0, 1, 0, 0, 0, 0, 0, 1], the letter 'A'
DefaultSwitches == [i \in 0 .. 7 |-> IF i \in {1, 7} THEN 1 ELSE 0]

\* the switches a run of Spec toggles; the others keep their default
ToggleIndices == {0, 4, 7}

\* 0xB33C87E3
ScenarioSeed ==
    FromBinary(<<1,0,1,1, 0,0,1,1, 0,0,1,1, 1,1,0,0,
                 1,0,0,0, 0,1,1,1, 1,1,1,0, 0,0,1,1>>)

\* shared seeds of SpecSeeded: the default, the scenario's, the fixed point 0,
\* all ones, and the two one-bit registers at the ends
Seeds ==
    { DEFAULT_SEED, ScenarioSeed,
      [i \in 0 .. LFSR_SIZE - 1 |-> 0],
      [i \in 0 .. LFSR_SIZE - 1 |-> 1],
      [i \in 0 .. LFSR_SIZE - 1 |-> IF i = 0 THEN 1 ELSE 0],
      [i \in 0 .. LFSR_SIZE - 1 |-> IF i = 31 THEN 1 ELSE 0] }

\* --------------------------------------------------------- bit arithmetic

\* a | b in place of a ^ b
XorAsOr(a, b) == IF a = 1 \/ b = 1 THEN 1 ELSE 0

Xor(a, b) == (a + b) % 2

\* the reduction started from 1 in place of 0
RECURSIVE XorReduceFromOne(_)
XorReduceFromOne(s) ==
    IF s = <<>> THEN 1 ELSE Xor(XorReduceFromOne(Tail(s)), Head(s))

\* a ^ b ^ ... over a sequence of bits, as reduce((a, b) => a ^ b, 0)
RECURSIVE XorReduce(_)
XorReduce(s) == IF s = <<>> THEN 0 ELSE Xor(XorReduce(Tail(s)), Head(s))

\* 32-bit two's complement bits of an int32
Int32Bits(n) ==
    LET m == IF n < 0 THEN n + 1073741824 + 1073741824 ELSE n
    IN  [i \in 0 .. 31 |->
            IF i = 31 THEN (IF n < 0 THEN 1 ELSE 0) ELSE (m \div (2 ^ i)) % 2]

RECURSIVE SumBits(_, _)
SumBits(b, i) == IF i < 0 THEN 0 ELSE b[i] * (2 ^ i) + SumBits(b, i - 1)

\* the int32 denoted by 32 bits
BitsInt32(b) ==
    IF b[31] = 1
    THEN (SumBits(b, 30) - 1073741824) - 1073741824
    ELSE SumBits(b, 30)

\* prev replaced by the new bit in place of prev | bit
BitOrDropsPrev(a, b) == b

\* a | b on int32 operands
BitOr(a, b) ==
    LET x == Int32Bits(a)
        y == Int32Bits(b)
    IN  BitsInt32([i \in 0 .. 31 |-> IF x[i] = 1 \/ y[i] = 1 THEN 1 ELSE 0])

\* bit << (7 - n): the byte packed from its low end
ShlFromLowEnd(bit, n) == bit * (2 ^ (7 - n))

\* bit << n for a bit operand: the count is taken modulo 32
Shl(bit, n) ==
    IF bit = 0 THEN 0
    ELSE IF n % 32 = 31 THEN (0 - 1073741824) - 1073741824
    ELSE 2 ^ (n % 32)

\* arr[i + 1] in place of arr[i]
AtOffByOne(arr, i) == IF i + 1 \in DOMAIN arr THEN arr[i + 1] ELSE 0

\* arr[i]; out of range reads give undefined, which bit operators read as 0
At(arr, i) == IF i \in DOMAIN arr THEN arr[i] ELSE 0

\* -------------------------------------------------------------- generator

\* the shift-left lfsrStep that rotates: the expelled bit re-enters at bit 0
lfsrStepRotates(state) ==
    LET tapValues == [k \in 1 .. Len(LFSR_TAPS) |-> state[LFSR_TAPS[k]]]
        feedbackBit == XorReduce(tapValues)
        newState == [i \in 0 .. LFSR_SIZE - 1 |->
                        IF i = 0 THEN state[31] ELSE state[i - 1]]
    IN  [newState |-> newState, outputBit |-> state[31],
         feedbackBit |-> feedbackBit]

\* the shift-left lfsrStep whose feedback leaves out the expelled bit 31
lfsrStepWithoutTopTap(state) ==
    LET tapValues == [k \in 1 .. Len(LFSR_TAPS) - 1 |-> state[LFSR_TAPS[k]]]
        feedbackBit == XorReduce(tapValues)
        outputBit == state[31]
        newState == [i \in 0 .. LFSR_SIZE - 1 |->
                        IF i = 0 THEN feedbackBit ELSE state[i - 1]]
    IN  [newState |-> newState, outputBit |-> outputBit,
         feedbackBit |-> feedbackBit]

\* the shift-left lfsrStep reporting the feedback bit as its output
lfsrStepOutputsFeedback(state) ==
    LET tapValues == [k \in 1 .. Len(LFSR_TAPS) |-> state[LFSR_TAPS[k]]]
        feedbackBit == XorReduce(tapValues)
        newState == [i \in 0 .. LFSR_SIZE - 1 |->
                        IF i = 0 THEN feedbackBit ELSE state[i - 1]]
    IN  [newState |-> newState, outputBit |-> feedbackBit,
         feedbackBit |-> feedbackBit]

\* lfsrStep of hooks/use-lfsr: output is bit 31, shift left, feedback enters
\* at bit 0
lfsrStep(state) ==
    LET tapValues == [k \in 1 .. Len(LFSR_TAPS) |-> state[LFSR_TAPS[k]]]
        feedbackBit == XorReduce(tapValues)
        outputBit == state[31]
        newState == [i \in 0 .. LFSR_SIZE - 1 |->
                        IF i = 0 THEN feedbackBit ELSE state[i - 1]]
    IN  [newState |-> newState, outputBit |-> outputBit,
         feedbackBit |-> feedbackBit]

\* the shift-right lfsrStep with the feedback placed at position 0
lfsrStepShiftRightFeedsLow(state) ==
    LET tapValues == [k \in 1 .. Len(LFSR_TAPS) |-> state[LFSR_TAPS[k]]]
        feedbackBit == XorReduce(tapValues)
        newState == [i \in 0 .. LFSR_SIZE - 1 |->
                        IF i = 0 THEN feedbackBit
                        ELSE IF i = 31 THEN 0 ELSE state[i + 1]]
    IN  [newState |-> newState, outputBit |-> state[0],
         feedbackBit |-> feedbackBit]

\* the shift-right lfsrStep reporting bit 31 as its output
lfsrStepShiftRightOutputsTop(state) ==
    LET tapValues == [k \in 1 .. Len(LFSR_TAPS) |-> state[LFSR_TAPS[k]]]
        feedbackBit == XorReduce(tapValues)
        newState == [i \in 0 .. LFSR_SIZE - 1 |->
                        IF i = 31 THEN feedbackBit ELSE state[i + 1]]
    IN  [newState |-> newState, outputBit |-> state[31],
         feedbackBit |-> feedbackBit]

\* lfsrStep of the other hooks/use-lfsr revision: output is bit 0, shift
\* right, feedback enters at bit 31
lfsrStepShiftRight(state) ==
    LET tapValues == [k \in 1 .. Len(LFSR_TAPS) |-> state[LFSR_TAPS[k]]]
        feedbackBit == XorReduce(tapValues)
        outputBit == state[0]
        newState == [i \in 0 .. LFSR_SIZE - 1 |->
                        IF i = 31 THEN feedbackBit ELSE state[i + 1]]
    IN  [newState |-> newState, outputBit |-> outputBit,
         feedbackBit |-> feedbackBit]

Variants == {"shiftLeft", "shiftRight"}

\* the lfsrStep the session imports from "@/hooks/use-lfsr"
importedStep(state) ==
    IF variant = "shiftLeft" THEN lfsrStep(state)
    ELSE lfsrStepShiftRight(state)

\* the register after n clocks
RECURSIVE StepN(_, _)
StepN(state, n) ==
    IF n = 0 THEN state ELSE StepN(importedStep(state).newState, n - 1)

\* ------------------------------------------- the register as a JS number

\* A number between -2^31 and 2^32 - 1 is held as hi * 2^16 + lo, lo in
\* 0 .. 2^16 - 1: an int32 result with bit 31 set has hi < 0, a uint32 result
\* has hi in 0 .. 2^16 - 1.
Half == 2 ^ 16

One == [hi |-> 0, lo |-> 1]

\* the 32-bit pattern the bitwise operators read from an operand
Pattern(x) ==
    [i \in 0 .. 31 |->
        IF i < 16 THEN (x.lo \div (2 ^ i)) % 2
        ELSE ((x.hi % Half) \div (2 ^ (i - 16))) % 2]

\* bits from .. from + 15 of a pattern as a number below 2^16
RECURSIVE HalfSum(_, _, _)
HalfSum(b, from, i) ==
    IF i > 15 THEN 0 ELSE b[from + i] * (2 ^ i) + HalfSum(b, from, i + 1)

\* the result of >>>: the pattern read as unsigned
ToUint32(b) == [hi |-> HalfSum(b, 16, 0), lo |-> HalfSum(b, 0, 0)]

\* the result of <<, |, &, ~, >>: the pattern read as two's complement
ToInt32(b) == [hi |-> HalfSum(b, 16, 0) - b[31] * Half, lo |-> HalfSum(b, 0, 0)]

\* x >> n in place of x >>> n
UshrSignPropagating(x, n) ==
    LET p == Pattern(x)
    IN  ToInt32([i \in 0 .. 31 |-> IF i + n <= 31 THEN p[i + n] ELSE p[31]])

\* x >>> n, n in 0 .. 31
Ushr(x, n) ==
    LET p == Pattern(x)
    IN  ToUint32([i \in 0 .. 31 |-> IF i + n <= 31 THEN p[i + n] ELSE 0])

\* x << n, n in 0 .. 31
ShiftLeft(x, n) ==
    LET p == Pattern(x)
    IN  ToInt32([i \in 0 .. 31 |-> IF i >= n THEN p[i - n] ELSE 0])

\* x | y
BitwiseOr(x, y) ==
    LET p == Pattern(x)
        q == Pattern(y)
    IN  ToInt32([i \in 0 .. 31 |-> IF p[i] = 1 \/ q[i] = 1 THEN 1 ELSE 0])

\* x & y
BitwiseAnd(x, y) ==
    LET p == Pattern(x)
        q == Pattern(y)
    IN  ToInt32([i \in 0 .. 31 |-> IF p[i] = 1 /\ q[i] = 1 THEN 1 ELSE 0])

\* ~x
BitwiseNot(x) ==
    LET p == Pattern(x)
    IN  ToInt32([i \in 0 .. 31 |-> 1 - p[i]])

\* a number known to be small, as an integer
IntOf(x) == x.hi * Half + x.lo

\* toBitArray that starts one position up: (value >>> (i + 1)) & 1
toBitArrayOffByOne(value) ==
    [k \in 1 .. LFSR_SIZE |->
        IF k = LFSR_SIZE THEN 0 ELSE IntOf(BitwiseAnd(Ushr(value, k), One))]

\* toBitArray: element i of the array (position i + 1 of the sequence) is
\* (value >>> i) & 1
toBitArray(value) ==
    [k \in 1 .. LFSR_SIZE |-> IntOf(BitwiseAnd(Ushr(value, k - 1), One))]

\* lfsrStep of hooks/use-lfsr on numbers, statement by statement
lfsrStepNumber(state) ==
    LET tapValues == [k \in 1 .. Len(LFSR_TAPS) |->
                        IntOf(BitwiseAnd(Ushr(state, LFSR_TAPS[k]), One))]
        feedbackBit == XorReduce(tapValues)
        outputBit == IntOf(BitwiseAnd(Ushr(state, 31), One))
        shifted == ShiftLeft(state, 1)
        placed == IF feedbackBit # 0
                  THEN BitwiseOr(shifted, One)
                  ELSE BitwiseAnd(shifted, BitwiseNot(One))
        newState == Ushr(placed, 0)
    IN  [newState |-> newState, outputBit |-> outputBit,
         feedbackBit |-> feedbackBit]

\* lfsrStep of the other revision on numbers, statement by statement
lfsrStepShiftRightNumber(state) ==
    LET tapValues == [k \in 1 .. Len(LFSR_TAPS) |->
                        IntOf(BitwiseAnd(Ushr(state, LFSR_TAPS[k]), One))]
        feedbackBit == XorReduce(tapValues)
        outputBit == IntOf(BitwiseAnd(state, One))
        shifted == Ushr(state, 1)
        placed == IF feedbackBit # 0
                  THEN BitwiseOr(shifted, ShiftLeft(One, 31))
                  ELSE BitwiseAnd(shifted, BitwiseNot(ShiftLeft(One, 31)))
        newState == Ushr(placed, 0)
    IN  [newState |-> newState, outputBit |-> outputBit,
         feedbackBit |-> feedbackBit]

\* ------------------------------------------------------------ useLfsr hook

\* the null of lastFeedback / lastOutput before the first step
null == -1

\* the useLfsr instances alive side by side
Instances == {1, 2}

\* the values the speed slider can set: 1050 - v for v in 50 .. 1000 by 50
Speeds == {50, DefaultSpeed, 1000}

\* the state of an instance right after useLfsr(seed); timers are the
\* intervals the instance has armed and not cleared, each with the handle
\* setInterval returned and its period
useLfsr(seed) ==
    [state |-> seed, stepCount |-> 0, lastFeedback |-> null,
     lastOutput |-> null, outputStream |-> <<>>, isRunning |-> FALSE,
     speed |-> DefaultSpeed, intervalRef |-> null, timers |-> {}]

\* step whose history is never trimmed
stepWithoutCap(g) ==
    LET r == importedStep(g.state)
    IN  [g EXCEPT !.state = r.newState,
                  !.lastFeedback = r.feedbackBit,
                  !.lastOutput = r.outputBit,
                  !.stepCount = g.stepCount + 1,
                  !.outputStream = Append(g.outputStream, r.outputBit)]

\* step that drops the newest entry of a full history, not the oldest
stepEvictsNewest(g) ==
    LET r == importedStep(g.state)
        next == Append(g.outputStream, r.outputBit)
    IN  [g EXCEPT !.state = r.newState,
                  !.lastFeedback = r.feedbackBit,
                  !.lastOutput = r.outputBit,
                  !.stepCount = g.stepCount + 1,
                  !.outputStream =
                      IF Len(next) > StreamCap
                      THEN SubSeq(next, 1, StreamCap) ELSE next]

\* step whose updater body runs twice for one new register: the counter and
\* the history are updated twice
stepUpdaterTwice(g) ==
    LET r == importedStep(g.state)
        once == Append(g.outputStream, r.outputBit)
        trimmed == IF Len(once) > StreamCap THEN Tail(once) ELSE once
        next == Append(trimmed, r.outputBit)
    IN  [g EXCEPT !.state = r.newState,
                  !.lastFeedback = r.feedbackBit,
                  !.lastOutput = r.outputBit,
                  !.stepCount = g.stepCount + 2,
                  !.outputStream =
                      IF Len(next) > StreamCap THEN Tail(next) ELSE next]

\* step: the register, the last bits, the counter and the capped history
step(g) ==
    LET r == importedStep(g.state)
        next == Append(g.outputStream, r.outputBit)
    IN  [g EXCEPT !.state = r.newState,
                  !.lastFeedback = r.feedbackBit,
                  !.lastOutput = r.outputBit,
                  !.stepCount = g.stepCount + 1,
                  !.outputStream =
                      IF Len(next) > StreamCap THEN Tail(next) ELSE next]

\* reset that leaves the register where it is
resetKeepsRegister(g) ==
    [g EXCEPT !.stepCount = 0, !.lastFeedback = null, !.lastOutput = null,
              !.outputStream = <<>>, !.isRunning = FALSE]

\* reset: back to the seed of construction, auto-run off
reset(g) ==
    [g EXCEPT !.state = initialSeed, !.stepCount = 0, !.lastFeedback = null,
              !.lastOutput = null, !.outputStream = <<>>,
              !.isRunning = FALSE]

toggleAutoRun(g) == [g EXCEPT !.isRunning = ~g.isRunning]

setSpeed(g, ms) == [g EXCEPT !.speed = ms]

\* the timer setInterval(step, ms) arms: a handle no armed timer has. Handles
\* of cleared timers are issued again; intervalRef, their only holder, is
\* overwritten by the statement that receives the new handle.
setInterval(timers, ms) ==
    LET id == CHOOSE n \in 1 .. Cardinality(timers) + 1 :
                  \A t \in timers : t.id # n
    IN  [id |-> id, period |-> ms]

clearInterval(timers, id) == {t \in timers : t.id # id}

\* the function the effect returns: if (intervalRef.current) clearInterval(...)
effectCleanup(g) ==
    IF g.intervalRef # null
    THEN [g EXCEPT !.timers = clearInterval(g.timers, g.intervalRef)]
    ELSE g

\* the body of the effect
effectBody(g) ==
    IF g.isRunning
    THEN LET timer == setInterval(g.timers, g.speed)
         IN  [g EXCEPT !.intervalRef = timer.id,
                       !.timers = g.timers \cup {timer}]
    ELSE IF g.intervalRef # null
    THEN [g EXCEPT !.timers = clearInterval(g.timers, g.intervalRef),
                   !.intervalRef = null]
    ELSE g

\* the effect without the cleanup function of its previous run
intervalEffectWithoutCleanup(previous, committed) ==
    IF committed.isRunning = previous.isRunning
            /\ committed.speed = previous.speed
    THEN committed
    ELSE effectBody(committed)

\* the effect clearing nothing when auto-run goes off
intervalEffectLeavesTimer(previous, committed) ==
    IF committed.isRunning = previous.isRunning
            /\ committed.speed = previous.speed
    THEN committed
    ELSE IF committed.isRunning
    THEN effectBody(effectCleanup(committed))
    ELSE [committed EXCEPT !.intervalRef = null]

\* useEffect(..., [isRunning, speed, step]) at the commit that replaces the
\* state `previous` by `committed`: when isRunning or speed changed (step is
\* one callback for the life of the instance) the previous run's cleanup and
\* then the body run, before the next event is handled
intervalEffect(previous, committed) ==
    IF committed.isRunning = previous.isRunning
            /\ committed.speed = previous.speed
    THEN committed
    ELSE effectBody(effectCleanup(committed))

\* what parseInt(seedHex, 16) reads from the text field: a register value,
\* or NaN for the empty text (the field keeps hex digits only, 8 at most)
SeedEntries ==
    [nan : {FALSE}, value : Seeds]
        \cup {[nan |-> TRUE, value |-> [i \in 0 .. LFSR_SIZE - 1 |-> 0]]}

\* useState(false), useState("00000000")
SeedPanelClosed ==
    [showSeed |-> FALSE,
     seedHex |-> [nan |-> FALSE, value |-> [i \in 0 .. LFSR_SIZE - 1 |-> 0]]]

\* the members of the object useLfsr returns
HookMembers ==
    {"state", "bits", "stepCount", "lastFeedback", "lastOutput",
     "outputStream", "isRunning", "speed", "step", "reset", "toggleAutoRun",
     "setSpeed", "setState", "setStepCount"}

\* the animated component before any send: useState(false), useState([]),
\* useState(-1), useRef(null), nothing armed, the page rendering
AnimationIdle ==
    [isSimulating |-> FALSE, steps |-> <<>>, currentStep |-> -1,
     intervalRef |-> null, timers |-> {}, crashed |-> FALSE]

\* ---------------------------------------------------------------- session

\* messageByte: the switches packed MSB first
RECURSIVE PackFrom(_, _)
PackFrom(bits, i) ==
    IF i > 7 THEN 0 ELSE BitOr(PackFrom(bits, i + 1), Shl(bits[i], 7 - i))

messageByte == PackFrom(switches, 0)

\* bitCursor > 8 in place of bitCursor >= 8
cursorPastEnd(cursor) == cursor > 8

\* the comparison bitCursor >= 8 of byteComplete and of handlePulse's guard
cursorAtEnd(cursor) == cursor >= 8

byteComplete == cursorAtEnd(bitCursor)

\* what the controls let through
\* the switches locked only once the byte is complete
switchDisabledAtEnd == byteComplete

switchDisabled == bitCursor > 0

pulseDisabled == byteComplete

\* the Siguiente Byte button rendered unconditionally
nextByteAlwaysRendered == TRUE

nextByteRendered == byteComplete

\* the Desincronizar button never disabled
desyncNeverDisabled == FALSE

desyncDisabled == ~isSynced

Called(op, ok) == lastCall' = [op |-> op, ok |-> ok]

\* the state of a session right after construction, as a record
constructed ==
    [switches |-> DefaultSwitches, lfsrTx |-> DEFAULT_SEED,
     lfsrRx |-> DEFAULT_SEED, originalByte |-> 0, encryptedByte |-> 0,
     decryptedByte |-> 0, pulses |-> <<>>, bitCursor |-> 0,
     isSynced |-> TRUE, desyncWarning |-> FALSE]

Init ==
    /\ variant \in Variants
    /\ switches = DefaultSwitches
    /\ lfsrTx = DEFAULT_SEED
    /\ lfsrRx = DEFAULT_SEED
    /\ bitCursor = 0
    /\ originalByte = 0
    /\ encryptedByte = 0
    /\ decryptedByte = 0
    /\ pulses = <<>>
    /\ isSynced = TRUE
    /\ desyncWarning = FALSE
    /\ bytesDone = 0
    /\ lastCall = [op |-> "none", ok |-> TRUE]
    /\ initialSeed = DEFAULT_SEED
    /\ generators = [g \in Instances |-> useLfsr(DEFAULT_SEED)]
    /\ seedPanel = SeedPanelClosed
    /\ animation = AnimationIdle
    /\ twin = constructed

toggleSwitch(index) ==
    IF byteComplete
    THEN /\ Called("toggle", FALSE)
         /\ UNCHANGED session
    ELSE /\ switches' = [switches EXCEPT
                            ![index] = IF switches[index] # 0 THEN 0 ELSE 1]
         /\ Called("toggle", TRUE)
         /\ UNCHANGED <<lfsrTx, lfsrRx, bitCursor, originalByte,
                        encryptedByte, decryptedByte, pulses, isSynced,
                        desyncWarning>>

handlePulse ==
    IF cursorAtEnd(bitCursor)
    THEN /\ Called("pulse", FALSE)
         /\ UNCHANGED session
    ELSE LET messageBit == At(switches, bitCursor)
             txResult == importedStep(lfsrTx)
             lfsrTxBit == txResult.outputBit
             encryptedBit == Xor(messageBit, lfsrTxBit)
             rxResult == importedStep(lfsrRx)
             lfsrRxBit == rxResult.outputBit
             decryptedBit == Xor(encryptedBit, lfsrRxBit)
             shift == 7 - bitCursor
         IN  /\ lfsrTx' = txResult.newState
             /\ lfsrRx' = rxResult.newState
             /\ originalByte' = BitOr(originalByte, Shl(messageBit, shift))
             /\ encryptedByte' = BitOr(encryptedByte, Shl(encryptedBit, shift))
             /\ decryptedByte' = BitOr(decryptedByte, Shl(decryptedBit, shift))
             /\ pulses' = Append(pulses,
                    [bitIndex |-> bitCursor, messageBit |-> messageBit,
                     lfsrTxBit |-> lfsrTxBit, encryptedBit |-> encryptedBit,
                     lfsrRxBit |-> lfsrRxBit, decryptedBit |-> decryptedBit])
             /\ bitCursor' = bitCursor + 1
             /\ Called("pulse", TRUE)
             /\ UNCHANGED <<switches, isSynced, desyncWarning>>

\* handlePulse whose tx and rx registers take the message bit in: the new
\* registers have bit 0 XORed with it
pulseInvocationAbsorbsMessage(seen, queued) ==
    IF cursorAtEnd(seen.bitCursor)
    THEN queued
    ELSE LET messageBit == At(seen.switches, seen.bitCursor)
             txResult == importedStep(seen.lfsrTx)
             lfsrTxBit == txResult.outputBit
             encryptedBit == Xor(messageBit, lfsrTxBit)
             rxResult == importedStep(seen.lfsrRx)
             lfsrRxBit == rxResult.outputBit
             decryptedBit == Xor(encryptedBit, lfsrRxBit)
             shift == 7 - seen.bitCursor
         IN  [switches |-> queued.switches,
              lfsrTx |-> [txResult.newState EXCEPT
                            ![0] = Xor(txResult.newState[0], messageBit)],
              lfsrRx |-> [rxResult.newState EXCEPT
                            ![0] = Xor(rxResult.newState[0], messageBit)],
              originalByte |-> BitOr(queued.originalByte, Shl(messageBit, shift)),
              encryptedByte |-> BitOr(queued.encryptedByte, Shl(encryptedBit, shift)),
              decryptedByte |-> BitOr(queued.decryptedByte, Shl(decryptedBit, shift)),
              pulses |-> Append(queued.pulses,
                    [bitIndex |-> seen.bitCursor, messageBit |-> messageBit,
                     lfsrTxBit |-> lfsrTxBit, encryptedBit |-> encryptedBit,
                     lfsrRxBit |-> lfsrRxBit, decryptedBit |-> decryptedBit]),
              bitCursor |-> queued.bitCursor + 1,
              isSynced |-> queued.isSynced,
              desyncWarning |-> queued.desyncWarning]

\* One handlePulse invocation issued from the render `seen` when the updates
\* already queued amount to `queued`: the guard, the message bit, both
\* lfsrStep arguments, the shift and bitIndex are read from the closure
\* (seen); setLfsrTx / setLfsrRx overwrite with a value computed from seen;
\* the accumulators, the history and the cursor are functional updates and
\* apply to queued.
pulseInvocation(seen, queued) ==
    IF cursorAtEnd(seen.bitCursor)
    THEN queued
    ELSE LET messageBit == At(seen.switches, seen.bitCursor)
             txResult == importedStep(seen.lfsrTx)
             lfsrTxBit == txResult.outputBit
             encryptedBit == Xor(messageBit, lfsrTxBit)
             rxResult == importedStep(seen.lfsrRx)
             lfsrRxBit == rxResult.outputBit
             decryptedBit == Xor(encryptedBit, lfsrRxBit)
             shift == 7 - seen.bitCursor
         IN  [switches |-> queued.switches,
              lfsrTx |-> txResult.newState,
              lfsrRx |-> rxResult.newState,
              originalByte |-> BitOr(queued.originalByte, Shl(messageBit, shift)),
              encryptedByte |-> BitOr(queued.encryptedByte, Shl(encryptedBit, shift)),
              decryptedByte |-> BitOr(queued.decryptedByte, Shl(decryptedBit, shift)),
              pulses |-> Append(queued.pulses,
                    [bitIndex |-> seen.bitCursor, messageBit |-> messageBit,
                     lfsrTxBit |-> lfsrTxBit, encryptedBit |-> encryptedBit,
                     lfsrRxBit |-> lfsrRxBit, decryptedBit |-> decryptedBit]),
              bitCursor |-> queued.bitCursor + 1,
              isSynced |-> queued.isSynced,
              desyncWarning |-> queued.desyncWarning]

\* n invocations of the handlePulse of one render, each on top of the last
RECURSIVE pulseInvocations(_, _, _)
pulseInvocations(seen, queued, n) ==
    IF n = 0 THEN queued
    ELSE pulseInvocations(seen, pulseInvocation(seen, queued), n - 1)

\* the state the render holds for handlePulse
rendered ==
    [switches |-> switches, lfsrTx |-> lfsrTx, lfsrRx |-> lfsrRx,
     originalByte |-> originalByte, encryptedByte |-> encryptedByte,
     decryptedByte |-> decryptedByte, pulses |-> pulses,
     bitCursor |-> bitCursor, isSynced |-> isSynced,
     desyncWarning |-> desyncWarning]

\* n invocations of handlePulse from the current render, then the commit
handlePulseTimes(n) ==
    IF cursorAtEnd(bitCursor)
    THEN /\ Called("pulse", FALSE)
         /\ UNCHANGED session
    ELSE LET committed == pulseInvocations(rendered, rendered, n)
         IN  /\ lfsrTx' = committed.lfsrTx
             /\ lfsrRx' = committed.lfsrRx
             /\ originalByte' = committed.originalByte
             /\ encryptedByte' = committed.encryptedByte
             /\ decryptedByte' = committed.decryptedByte
             /\ pulses' = committed.pulses
             /\ bitCursor' = committed.bitCursor
             /\ Called("pulse", TRUE)
             /\ UNCHANGED <<switches, isSynced, desyncWarning>>

\* handleNextByte that also restores the default switches
handleNextByteClearsSwitches ==
    /\ bitCursor' = 0
    /\ originalByte' = 0
    /\ encryptedByte' = 0
    /\ decryptedByte' = 0
    /\ pulses' = <<>>
    /\ switches' = DefaultSwitches
    /\ Called("nextByte", TRUE)
    /\ UNCHANGED <<lfsrTx, lfsrRx, isSynced, desyncWarning>>

\* handleNextByte that restarts the keystream of both generators
handleNextByteReseeds ==
    /\ bitCursor' = 0
    /\ originalByte' = 0
    /\ encryptedByte' = 0
    /\ decryptedByte' = 0
    /\ pulses' = <<>>
    /\ lfsrTx' = DEFAULT_SEED
    /\ lfsrRx' = DEFAULT_SEED
    /\ Called("nextByte", TRUE)
    /\ UNCHANGED <<switches, isSynced, desyncWarning>>

\* handleNextByte that sets the synchronization flag again
handleNextByteResyncs ==
    /\ bitCursor' = 0
    /\ originalByte' = 0
    /\ encryptedByte' = 0
    /\ decryptedByte' = 0
    /\ pulses' = <<>>
    /\ isSynced' = TRUE
    /\ Called("nextByte", TRUE)
    /\ UNCHANGED <<switches, lfsrTx, lfsrRx, desyncWarning>>

\* handleNextByte that leaves the three bytes as they are
handleNextByteKeepsBytes ==
    /\ bitCursor' = 0
    /\ pulses' = <<>>
    /\ Called("nextByte", TRUE)
    /\ UNCHANGED <<switches, lfsrTx, lfsrRx, isSynced, desyncWarning,
                   originalByte, encryptedByte, decryptedByte>>

handleNextByte ==
    /\ bitCursor' = 0
    /\ originalByte' = 0
    /\ encryptedByte' = 0
    /\ decryptedByte' = 0
    /\ pulses' = <<>>
    /\ Called("nextByte", TRUE)
    /\ UNCHANGED <<switches, lfsrTx, lfsrRx, isSynced, desyncWarning>>

\* handleReset without setIsSynced(true)
handleResetKeepsFlag ==
    /\ lfsrTx' = DEFAULT_SEED
    /\ lfsrRx' = DEFAULT_SEED
    /\ bitCursor' = 0
    /\ originalByte' = 0
    /\ encryptedByte' = 0
    /\ decryptedByte' = 0
    /\ pulses' = <<>>
    /\ desyncWarning' = FALSE
    /\ switches' = DefaultSwitches
    /\ Called("reset", TRUE)
    /\ UNCHANGED isSynced

\* handleReset without setSwitches
handleResetKeepsSwitches ==
    /\ lfsrTx' = DEFAULT_SEED
    /\ lfsrRx' = DEFAULT_SEED
    /\ bitCursor' = 0
    /\ originalByte' = 0
    /\ encryptedByte' = 0
    /\ decryptedByte' = 0
    /\ pulses' = <<>>
    /\ isSynced' = TRUE
    /\ desyncWarning' = FALSE
    /\ Called("reset", TRUE)
    /\ UNCHANGED switches

handleReset ==
    /\ lfsrTx' = DEFAULT_SEED
    /\ lfsrRx' = DEFAULT_SEED
    /\ bitCursor' = 0
    /\ originalByte' = 0
    /\ encryptedByte' = 0
    /\ decryptedByte' = 0
    /\ pulses' = <<>>
    /\ isSynced' = TRUE
    /\ desyncWarning' = FALSE
    /\ switches' = DefaultSwitches
    /\ Called("reset", TRUE)

\* the draw without its base of 3
desyncExtraNoBase(random) == random

\* the draw one too high
desyncExtraOneMore(random) == 3 + random + 1

\* 3 + Math.floor(Math.random() * 8), random being the value of the floor
desyncExtra(random) == 3 + random

\* handleDesync that leaves the synchronization flag set
handleDesyncKeepsFlag(random) ==
    LET extra == desyncExtra(random)
    IN  /\ lfsrRx' = StepN(lfsrRx, extra)
        /\ desyncWarning' = TRUE
        /\ Called("desync", TRUE)
        /\ UNCHANGED <<switches, lfsrTx, bitCursor, originalByte,
                       encryptedByte, decryptedByte, pulses, isSynced>>

handleDesync(random) ==
    LET extra == desyncExtra(random)
    IN  /\ lfsrRx' = StepN(lfsrRx, extra)
        /\ isSynced' = FALSE
        /\ desyncWarning' = TRUE
        /\ Called("desync", TRUE)
        /\ UNCHANGED <<switches, lfsrTx, bitCursor, originalByte,
                       encryptedByte, decryptedByte, pulses>>

\* ------------------------------------------------ triggers of the controls

SwitchClick ==
    /\ \E index \in ToggleIndices :
          IF switchDisabled
          THEN Called("toggle", FALSE) /\ UNCHANGED session
          ELSE toggleSwitch(index)
    /\ UNCHANGED <<variant, bytesDone, initialSeed, generators, seedPanel,
                   animation, twin>>

PulseClick ==
    /\ IF pulseDisabled
       THEN Called("pulse", FALSE) /\ UNCHANGED session
       ELSE handlePulse
    /\ UNCHANGED <<variant, bytesDone, initialSeed, generators, seedPanel,
                   animation, twin>>

NextByteClick ==
    /\ IF nextByteRendered
       THEN /\ bytesDone < MaxBytes
            /\ handleNextByte
            /\ bytesDone' = bytesDone + 1
       ELSE /\ Called("nextByte", FALSE)
            /\ UNCHANGED <<session, bytesDone>>
    /\ UNCHANGED <<variant, initialSeed, generators, seedPanel, animation,
                   twin>>

DesyncClick ==
    /\ IF desyncDisabled
       THEN Called("desync", FALSE) /\ UNCHANGED session
       ELSE \E random \in 0 .. DesyncSpread - 1 : handleDesync(random)
    /\ UNCHANGED <<variant, bytesDone, initialSeed, generators, seedPanel,
                   animation, twin>>

ResetClick ==
    /\ handleReset
    /\ bytesDone' = 0
    /\ UNCHANGED <<variant, initialSeed, generators, seedPanel, animation,
                   twin>>

Next ==
    \/ SwitchClick
    \/ PulseClick
    \/ NextByteClick
    \/ DesyncClick
    \/ ResetClick

Spec == Init /\ [][Next]_vars

\* A session whose generators share an arbitrary seed and whose switches hold
\* an arbitrary byte, sent unit after unit.
InitSeeded ==
    /\ variant \in Variants
    /\ switches \in [0 .. 7 -> Bit]
    /\ \E seed \in Seeds : lfsrTx = seed /\ lfsrRx = seed
    /\ bitCursor = 0
    /\ originalByte = 0
    /\ encryptedByte = 0
    /\ decryptedByte = 0
    /\ pulses = <<>>
    /\ isSynced = TRUE
    /\ desyncWarning = FALSE
    /\ bytesDone = 0
    /\ lastCall = [op |-> "none", ok |-> TRUE]
    /\ initialSeed = DEFAULT_SEED
    /\ generators = [g \in Instances |-> useLfsr(DEFAULT_SEED)]
    /\ seedPanel = SeedPanelClosed
    /\ animation = AnimationIdle
    /\ twin = constructed

NextSeeded ==
    \/ PulseClick
    \/ NextByteClick

SpecSeeded == InitSeeded /\ [][NextSeeded]_vars

\* The same controls, the send button's handler invoked up to MaxBurst times
\* before React commits the re-render.
PulseBurst ==
    /\ IF pulseDisabled
       THEN Called("pulse", FALSE) /\ UNCHANGED session
       ELSE \E n \in 1 .. MaxBurst : handlePulseTimes(n)
    /\ UNCHANGED <<variant, bytesDone, initialSeed, generators, seedPanel,
                   animation, twin>>

NextBurst ==
    \/ SwitchClick
    \/ PulseBurst
    \/ NextByteClick
    \/ ResetClick

SpecBurst == Init /\ [][NextBurst]_vars

\* ------------------------------------------- controls of the visualizer

\* the commit of the state g of instance i, with the effect it triggers
Update(i, g) ==
    /\ generators' = [generators EXCEPT ![i] = intervalEffect(generators[i], g)]
    /\ UNCHANGED <<session, variant, bytesDone, initialSeed, seedPanel,
                   animation, twin>>

\* the step button of instance i, disabled while auto-run is on
StepClickWithin(i, limit) ==
    IF generators[i].isRunning
    THEN Called("step", FALSE) /\ Update(i, generators[i])
    ELSE /\ generators[i].stepCount < limit
         /\ Called("step", TRUE)
         /\ Update(i, step(generators[i]))

\* the callback of an armed interval of instance i
IntervalTickWithin(i, limit) ==
    /\ generators[i].timers # {}
    /\ generators[i].stepCount < limit
    /\ Called("tick", TRUE)
    /\ Update(i, step(generators[i]))

StepClick == \E i \in Instances : StepClickWithin(i, MaxSteps)

IntervalTick == \E i \in Instances : IntervalTickWithin(i, MaxSteps)

AutoRunClick ==
    \E i \in Instances :
        /\ Called("toggleAutoRun", TRUE)
        /\ Update(i, toggleAutoRun(generators[i]))

GeneratorResetClick ==
    \E i \in Instances :
        /\ Called("generatorReset", TRUE)
        /\ Update(i, reset(generators[i]))

SpeedChange ==
    \E i \in Instances, ms \in Speeds :
        /\ Called("setSpeed", TRUE)
        /\ Update(i, setSpeed(generators[i], ms))

\* instances constructed with one seed, any of Seeds
InitGenerators ==
    /\ variant \in Variants
    /\ switches = DefaultSwitches
    /\ lfsrTx = DEFAULT_SEED
    /\ lfsrRx = DEFAULT_SEED
    /\ bitCursor = 0
    /\ originalByte = 0
    /\ encryptedByte = 0
    /\ decryptedByte = 0
    /\ pulses = <<>>
    /\ isSynced = TRUE
    /\ desyncWarning = FALSE
    /\ bytesDone = 0
    /\ lastCall = [op |-> "none", ok |-> TRUE]
    /\ initialSeed \in Seeds
    /\ generators = [g \in Instances |-> useLfsr(initialSeed)]
    /\ seedPanel = SeedPanelClosed
    /\ animation = AnimationIdle
    /\ twin = constructed

NextGenerators ==
    \/ StepClick
    \/ IntervalTick
    \/ AutoRunClick
    \/ GeneratorResetClick
    \/ SpeedChange

SpecGenerators == InitGenerators /\ [][NextGenerators]_vars

\* ------------------------------------------------- the seed panel (lfsr = 1)

PanelUpdate(panel) ==
    /\ seedPanel' = panel
    /\ UNCHANGED <<session, variant, bytesDone, initialSeed, generators,
                   animation, twin>>

\* the Semilla button
SeedPanelClick ==
    /\ Called("seedPanel", TRUE)
    /\ PanelUpdate([seedPanel EXCEPT !.showSeed = ~seedPanel.showSeed])

\* typing in the text field of the open panel
SeedHexChange ==
    /\ seedPanel.showSeed
    /\ \E entry \in SeedEntries :
          /\ Called("seedHex", TRUE)
          /\ PanelUpdate([seedPanel EXCEPT !.seedHex = entry])

\* applySeed: nothing on NaN; otherwise lfsr.setSeed(parsed), a call of a
\* member the hook does not return, which throws before setShowSeed(false)
applySeed ==
    IF seedPanel.seedHex.nan
    THEN /\ Called("applySeed", TRUE)
         /\ PanelUpdate(seedPanel)
    ELSE /\ "setSeed" \notin HookMembers
         /\ Called("applySeed", FALSE)
         /\ PanelUpdate(seedPanel)

\* the Aplicar button of the open panel
ApplySeedClick ==
    /\ seedPanel.showSeed
    /\ applySeed

\* the Cancelar button of the open panel
CancelSeedClick ==
    /\ seedPanel.showSeed
    /\ Called("cancelSeed", TRUE)
    /\ PanelUpdate([seedPanel EXCEPT !.showSeed = FALSE])

\* The long run: one generator stepped by hand and by auto-run past the cap
\* of its history, the other instance left as constructed.
RunStepClick == StepClickWithin(1, MaxRun)

RunIntervalTick == IntervalTickWithin(1, MaxRun)

RunAutoRunClick ==
    /\ Called("toggleAutoRun", TRUE)
    /\ Update(1, toggleAutoRun(generators[1]))

RunResetClick ==
    /\ Called("generatorReset", TRUE)
    /\ Update(1, reset(generators[1]))

NextRun ==
    \/ RunStepClick
    \/ RunIntervalTick
    \/ RunAutoRunClick
    \/ RunResetClick

SpecRun == InitGenerators /\ [][NextRun]_vars

\* A freshly reset session whose switches hold any byte, desynchronized
\* before the first pulse or not at all, and the first unit sent.
InitPlaintexts ==
    /\ variant \in Variants
    /\ switches \in [0 .. 7 -> Bit]
    /\ lfsrTx = DEFAULT_SEED
    /\ lfsrRx = DEFAULT_SEED
    /\ bitCursor = 0
    /\ originalByte = 0
    /\ encryptedByte = 0
    /\ decryptedByte = 0
    /\ pulses = <<>>
    /\ isSynced = TRUE
    /\ desyncWarning = FALSE
    /\ bytesDone = 0
    /\ lastCall = [op |-> "none", ok |-> TRUE]
    /\ initialSeed = DEFAULT_SEED
    /\ generators = [g \in Instances |-> useLfsr(DEFAULT_SEED)]
    /\ seedPanel = SeedPanelClosed
    /\ animation = AnimationIdle
    /\ twin = constructed

DesyncAtStart ==
    /\ bitCursor = 0
    /\ DesyncClick

NextDesyncFirst ==
    \/ DesyncAtStart
    \/ PulseClick

SpecDesyncFirst == InitPlaintexts /\ [][NextDesyncFirst]_vars

\* The visualizer with its seed panel, generator 1 being its lfsr.
NextSeedPanel ==
    \/ RunStepClick
    \/ RunIntervalTick
    \/ RunAutoRunClick
    \/ RunResetClick
    \/ SeedPanelClick
    \/ SeedHexChange
    \/ ApplySeedClick
    \/ CancelSeedClick

SpecSeedPanel == Init /\ [][NextSeedPanel]_vars

\* ------------------------ the animated component (encryption-system.tsx)
\* It keeps switches, lfsrTx, lfsrRx, encryptedByte, decryptedByte, isSynced
\* and desyncWarning like the pulse-by-pulse component, and the rest of its
\* state in `animation`. bitCursor, originalByte and pulses are not its state.

animated == <<switches, lfsrTx, lfsrRx, encryptedByte, decryptedByte,
              isSynced, desyncWarning, animation>>

notAnimated == <<variant, bitCursor, originalByte, pulses, bytesDone,
                 initialSeed, generators, seedPanel, twin>>

\* the allSteps array of handleSend from iteration i on
RECURSIVE allStepsFrom(_, _, _)
allStepsFrom(txState, rxState, i) ==
    IF i >= 8 THEN <<>>
    ELSE LET messageBit == switches[i]
             txResult == importedStep(txState)
             lfsrTxBit == txResult.outputBit
             encryptedBit == Xor(messageBit, lfsrTxBit)
             rxResult == importedStep(rxState)
             lfsrRxBit == rxResult.outputBit
             decryptedBit == Xor(encryptedBit, lfsrRxBit)
         IN  <<[bitIndex |-> i, messageBit |-> messageBit,
                lfsrTxBit |-> lfsrTxBit, encryptedBit |-> encryptedBit,
                lfsrRxBit |-> lfsrRxBit, decryptedBit |-> decryptedBit]>>
                \o allStepsFrom(txResult.newState, rxResult.newState, i + 1)

\* toggleSwitch of the animated component
animatedToggleSwitch(index) ==
    IF animation.isSimulating
    THEN /\ Called("toggle", FALSE)
         /\ UNCHANGED animated
    ELSE /\ switches' = [switches EXCEPT
                            ![index] = IF switches[index] # 0 THEN 0 ELSE 1]
         /\ Called("toggle", TRUE)
         /\ UNCHANGED <<lfsrTx, lfsrRx, encryptedByte, decryptedByte,
                        isSynced, desyncWarning, animation>>

\* handleSend: the 8 steps are computed at once, both registers move 8
\* clocks, and an interval is armed whose closure holds stepIdx and allSteps
handleSend ==
    IF animation.isSimulating
    THEN /\ Called("send", FALSE)
         /\ UNCHANGED animated
    ELSE LET allSteps == allStepsFrom(lfsrTx, lfsrRx, 0)
             armed == setInterval(animation.timers, AnimationPeriod)
             timer == [id |-> armed.id, period |-> armed.period,
                       stepIdx |-> 0, allSteps |-> allSteps]
         IN  /\ lfsrTx' = StepN(lfsrTx, 8)
             /\ lfsrRx' = StepN(lfsrRx, 8)
             /\ encryptedByte' = 0
             /\ decryptedByte' = 0
             /\ animation' = [animation EXCEPT
                                !.isSimulating = TRUE,
                                !.steps = allSteps,
                                !.currentStep = -1,
                                !.intervalRef = timer.id,
                                !.timers = animation.timers \cup {timer}]
             /\ Called("send", TRUE)
             /\ UNCHANGED <<switches, isSynced, desyncWarning>>

\* The index the updaters of setEncryptedByte / setDecryptedByte read. They
\* are closures over the variable stepIdx and React runs them in the render
\* after the interval callback has returned (an update, setCurrentStep, is
\* already queued on the component, so they are not evaluated at the call):
\* by then stepIdx++ has run.
updaterIndex(stepIdx) == stepIdx + 1

\* the interval callback of handleSend, for an armed interval
intervalCallback(timer) ==
    IF timer.stepIdx < 8
    THEN LET read == updaterIndex(timer.stepIdx)
         IN  IF read + 1 \in DOMAIN timer.allSteps
             THEN /\ encryptedByte' =
                        BitOr(encryptedByte,
                              Shl(timer.allSteps[read + 1].encryptedBit,
                                  7 - read))
                  /\ decryptedByte' =
                        BitOr(decryptedByte,
                              Shl(timer.allSteps[read + 1].decryptedBit,
                                  7 - read))
                  /\ animation' = [animation EXCEPT
                        !.currentStep = timer.stepIdx,
                        !.timers = (animation.timers \ {timer}) \cup
                            {[timer EXCEPT !.stepIdx = timer.stepIdx + 1]}]
                  /\ Called("animationTick", TRUE)
                  /\ UNCHANGED <<switches, lfsrTx, lfsrRx, isSynced,
                                 desyncWarning>>
             \* allSteps[stepIdx] is undefined: reading .encryptedBit throws
             \* in the render, the component is unmounted with the state of
             \* its last commit, and the unmount cleanup clears the interval
             ELSE /\ animation' = [animation EXCEPT
                        !.crashed = TRUE,
                        !.timers = IF animation.intervalRef # null
                                   THEN clearInterval(animation.timers,
                                                      animation.intervalRef)
                                   ELSE animation.timers]
                  /\ Called("animationTick", FALSE)
                  /\ UNCHANGED <<switches, lfsrTx, lfsrRx, encryptedByte,
                                 decryptedByte, isSynced, desyncWarning>>
    ELSE /\ animation' = [animation EXCEPT
                !.isSimulating = FALSE,
                !.timers = IF animation.intervalRef # null
                           THEN clearInterval(animation.timers,
                                              animation.intervalRef)
                           ELSE animation.timers]
         /\ Called("animationTick", TRUE)
         /\ UNCHANGED <<switches, lfsrTx, lfsrRx, encryptedByte,
                        decryptedByte, isSynced, desyncWarning>>

\* handleDesync of the animated component
animatedHandleDesync(random) ==
    IF animation.isSimulating
    THEN /\ Called("desync", FALSE)
         /\ UNCHANGED animated
    ELSE LET extraSteps == desyncExtra(random)
         IN  /\ lfsrRx' = StepN(lfsrRx, extraSteps)
             /\ isSynced' = FALSE
             /\ desyncWarning' = TRUE
             /\ Called("desync", TRUE)
             /\ UNCHANGED <<switches, lfsrTx, encryptedByte, decryptedByte,
                            animation>>

\* handleReset of the animated component without its clearInterval
animatedHandleResetKeepsInterval ==
    /\ lfsrTx' = DEFAULT_SEED
    /\ lfsrRx' = DEFAULT_SEED
    /\ encryptedByte' = 0
    /\ decryptedByte' = 0
    /\ isSynced' = TRUE
    /\ desyncWarning' = FALSE
    /\ switches' = DefaultSwitches
    /\ animation' = [animation EXCEPT
            !.steps = <<>>, !.currentStep = -1, !.isSimulating = FALSE]
    /\ Called("reset", TRUE)

\* handleReset of the animated component
animatedHandleReset ==
    /\ lfsrTx' = DEFAULT_SEED
    /\ lfsrRx' = DEFAULT_SEED
    /\ encryptedByte' = 0
    /\ decryptedByte' = 0
    /\ isSynced' = TRUE
    /\ desyncWarning' = FALSE
    /\ switches' = DefaultSwitches
    /\ animation' = [animation EXCEPT
            !.timers = IF animation.intervalRef # null
                       THEN clearInterval(animation.timers,
                                          animation.intervalRef)
                       ELSE animation.timers,
            !.steps = <<>>, !.currentStep = -1, !.isSimulating = FALSE]
    /\ Called("reset", TRUE)

\* the controls of the animated component; none is left once the page has
\* been replaced by the error screen
AnimatedSwitchClick ==
    /\ ~animation.crashed
    /\ \E index \in ToggleIndices : animatedToggleSwitch(index)
    /\ UNCHANGED notAnimated

SendClick ==
    /\ ~animation.crashed
    /\ handleSend
    /\ UNCHANGED notAnimated

AnimationTick ==
    /\ ~animation.crashed
    /\ \E timer \in animation.timers : intervalCallback(timer)
    /\ UNCHANGED notAnimated

AnimatedDesyncClick ==
    /\ ~animation.crashed
    /\ IF animation.isSimulating \/ ~isSynced
       THEN Called("desync", FALSE) /\ UNCHANGED animated
       ELSE \E random \in 0 .. DesyncSpread - 1 : animatedHandleDesync(random)
    /\ UNCHANGED notAnimated

AnimatedResetClick ==
    /\ ~animation.crashed
    /\ animatedHandleReset
    /\ UNCHANGED notAnimated

NextAnimated ==
    \/ AnimatedSwitchClick
    \/ SendClick
    \/ AnimationTick
    \/ AnimatedDesyncClick
    \/ AnimatedResetClick

SpecAnimated == Init /\ [][NextAnimated]_vars

\* ----------------------------------------- two sessions, the same operations
\* The second session is the record `twin`. handlePulse acts on it through
\* pulseInvocation, the other handlers through the functions below, which
\* are those handlers on a record.

\* the switches either session may toggle
TwinToggleIndices == {0, 7}

\* the values of Math.floor(Math.random() * 8) the two sessions draw: the
\* least and the greatest
TwinRandoms == {0, DesyncSpread - 1}

\* toggleSwitch behind the switches' disabled condition, on a record
toggleSwitchOn(t, index) ==
    IF t.bitCursor > 0 \/ cursorAtEnd(t.bitCursor) THEN t
    ELSE [t EXCEPT !.switches[index] = IF t.switches[index] # 0 THEN 0 ELSE 1]

\* handlePulse behind the button's disabled condition, on a record
handlePulseOn(t) ==
    IF cursorAtEnd(t.bitCursor) THEN t ELSE pulseInvocation(t, t)

\* handleNextByte behind the button's render condition, on a record
handleNextByteOn(t) ==
    IF cursorAtEnd(t.bitCursor)
    THEN [t EXCEPT !.bitCursor = 0, !.originalByte = 0, !.encryptedByte = 0,
                   !.decryptedByte = 0, !.pulses = <<>>]
    ELSE t

\* handleDesync behind the button's disabled condition, on a record
handleDesyncOn(t, random) ==
    IF ~t.isSynced THEN t
    ELSE [t EXCEPT !.lfsrRx = StepN(t.lfsrRx, desyncExtra(random)),
                   !.isSynced = FALSE, !.desyncWarning = TRUE]

\* the content of the input buffer is what the two sessions do not share
TwinSwitchClick ==
    /\ \E index \in TwinToggleIndices :
          IF switchDisabled
          THEN Called("toggle", FALSE) /\ UNCHANGED session
          ELSE toggleSwitch(index)
    /\ UNCHANGED <<variant, bytesDone, initialSeed, generators, seedPanel,
                   animation, twin>>

TwinOtherSwitchClick ==
    /\ \E index \in TwinToggleIndices : twin' = toggleSwitchOn(twin, index)
    /\ twin' # twin
    /\ Called("toggleTwin", TRUE)
    /\ UNCHANGED <<session, variant, bytesDone, initialSeed, generators,
                   seedPanel, animation>>

TwinPulseClick ==
    /\ IF pulseDisabled
       THEN Called("pulse", FALSE) /\ UNCHANGED session
       ELSE handlePulseTimes(1)
    /\ twin' = handlePulseOn(twin)
    /\ UNCHANGED <<variant, bytesDone, initialSeed, generators, seedPanel,
                   animation>>

TwinNextByteClick ==
    /\ IF nextByteRendered
       THEN /\ bytesDone < MaxBytes
            /\ handleNextByte
            /\ bytesDone' = bytesDone + 1
       ELSE /\ Called("nextByte", FALSE)
            /\ UNCHANGED <<session, bytesDone>>
    /\ twin' = handleNextByteOn(twin)
    /\ UNCHANGED <<variant, initialSeed, generators, seedPanel, animation>>

TwinDesyncClick ==
    /\ \E random \in TwinRandoms :
          /\ IF desyncDisabled
             THEN Called("desync", FALSE) /\ UNCHANGED session
             ELSE handleDesync(random)
          /\ twin' = handleDesyncOn(twin, random)
    /\ UNCHANGED <<variant, bytesDone, initialSeed, generators, seedPanel,
                   animation>>

TwinResetClick ==
    /\ handleReset
    /\ bytesDone' = 0
    /\ twin' = constructed
    /\ UNCHANGED <<variant, initialSeed, generators, seedPanel, animation>>

NextTwin ==
    \/ TwinSwitchClick
    \/ TwinOtherSwitchClick
    \/ TwinPulseClick
    \/ TwinNextByteClick
    \/ TwinDesyncClick
    \/ TwinResetClick

SpecTwin == Init /\ [][NextTwin]_vars

TypeOK ==
    /\ variant \in Variants
    /\ switches \in [0 .. 7 -> Bit]
    /\ lfsrTx \in Register
    /\ lfsrRx \in Register
    /\ bitCursor \in 0 .. 8
    /\ originalByte \in 0 .. 255
    /\ encryptedByte \in 0 .. 255
    /\ decryptedByte \in 0 .. 255
    /\ isSynced \in BOOLEAN
    /\ desyncWarning \in BOOLEAN
    /\ bytesDone \in 0 .. MaxBytes

\* ------------------------------------------------------------ properties

Matched(p) == p.decryptedBit = p.messageBit

Rejected(op) == lastCall = [op |-> op, ok |-> FALSE]

Accepted(op) == lastCall = [op |-> op, ok |-> TRUE]

accumulators == <<originalByte, encryptedByte, decryptedByte>>

\* the first n output bits of an independent generator constructed with seed
RECURSIVE Keystream(_, _)
Keystream(seed, n) ==
    IF n = 0 THEN <<>>
    ELSE LET r == importedStep(seed)
         IN  <<r.outputBit>> \o Keystream(r.newState, n - 1)

\* C1: with tx and rx seeded alike, after the 8 pulses of a unit the decrypted
\* byte equals the original byte and each of the 8 records has
\* decryptedBit = messageBit, for every shared seed and every switch setting.
C1_SelfInverse ==
    (bitCursor = 8 /\ isSynced) =>
        /\ decryptedByte = originalByte
        /\ Len(pulses) = 8
        /\ \A i \in 1 .. Len(pulses) : Matched(pulses[i])

\* a complete unit of all ones sent from the scenario seed, whose ciphertext
\* differs from the plaintext
C1_Witness ==
    /\ bitCursor = 8
    /\ isSynced
    /\ originalByte = 255
    /\ decryptedByte = 255
    /\ encryptedByte # 255
    /\ lfsrTx = StepN(ScenarioSeed, 8)

\* C2: while the synchronization flag is true the tx register equals the rx
\* register, and every pulse record of the history matches, unit after unit.
C2_SyncInvariant ==
    isSynced =>
        /\ lfsrTx = lfsrRx
        /\ \A i \in 1 .. Len(pulses) : Matched(pulses[i])

\* the second unit complete, still synchronized
C2_Witness ==
    /\ isSynced
    /\ bytesDone = 1
    /\ bitCursor = 8
    /\ Accepted("pulse")
    /\ lfsrTx = StepN(DEFAULT_SEED, 16)

\* C3: while the synchronization flag is false the tx register differs from
\* the rx register.
C3_DesyncedDiffer == ~isSynced => lfsrTx # lfsrRx

\* desynchronized during the first unit, the second unit complete
C3_Witness ==
    /\ ~isSynced
    /\ bytesDone = 1
    /\ bitCursor = 8
    /\ Len(pulses) = 8

\* C4: a step that clears the synchronization flag is an accepted
\* desynchronize; it clocks rx by some k in 3 .. 10 and changes neither tx,
\* the cursor, the accumulators, the history nor the switches.
C4_DesyncEffect ==
    [][(isSynced /\ ~isSynced') =>
            /\ lastCall' = [op |-> "desync", ok |-> TRUE]
            /\ \E k \in 3 .. 10 : lfsrRx' = StepN(lfsrRx, k)
            /\ UNCHANGED <<lfsrTx, bitCursor, accumulators, pulses, switches>>
      ]_vars

\* desynchronized by 10 extra clocks in the middle of a unit
C4_Witness ==
    /\ Accepted("desync")
    /\ ~isSynced
    /\ bitCursor = 3
    /\ lfsrTx = StepN(DEFAULT_SEED, 3)
    /\ lfsrRx = StepN(lfsrTx, 10)

\* C5: the desynchronize trigger fired while the flag is false is rejected
\* and changes nothing of the session.
C5_DesyncTwiceNoOp ==
    [][(~isSynced /\ lastCall'.op = "desync") =>
            ~lastCall'.ok /\ UNCHANGED session]_vars

\* a second desynchronize, rejected
C5_Witness == ~isSynced /\ Rejected("desync")

\* C6: the pulse trigger fired at cursor 8 is rejected and changes nothing of
\* the session.
C6_PulsePastEndNoOp ==
    [][(bitCursor = 8 /\ lastCall'.op = "pulse") =>
            ~lastCall'.ok /\ UNCHANGED session]_vars

\* a ninth pulse, rejected
C6_Witness == bitCursor = 8 /\ Len(pulses) = 8 /\ Rejected("pulse")

\* C7: a switch toggle is accepted only at cursor 0; at any cursor in 1 .. 8
\* it changes nothing of the session; so at cursor 8 the original byte is the
\* MSB-first packing of the switches.
C7_SwitchesLatched ==
    /\ [](bitCursor = 8 => originalByte = messageByte)
    /\ [][(lastCall'.op = "toggle") =>
            IF bitCursor = 0
            THEN lastCall'.ok
            ELSE ~lastCall'.ok /\ UNCHANGED session]_vars

\* a toggle rejected in the middle of a unit whose switches had been changed
C7_Witness ==
    /\ bitCursor \in 1 .. 7
    /\ Rejected("toggle")
    /\ switches # DefaultSwitches

\* C8: the next-byte trigger fired at a cursor below 8 is rejected and leaves
\* the cursor, the accumulators and the history as they are.
C8_NextByteOnlyAtEnd ==
    [][(bitCursor < 8 /\ lastCall'.op = "nextByte") =>
            /\ ~lastCall'.ok
            /\ UNCHANGED <<bitCursor, accumulators, pulses>>]_vars

\* next-byte rejected with five bits of the unit sent
C8_Witness ==
    /\ bitCursor = 5
    /\ Len(pulses) = 5
    /\ encryptedByte # 0
    /\ Rejected("nextByte")

\* C9: an accepted next-byte sets the cursor and the accumulators to 0 and
\* empties the history, and keeps tx, rx, the flag and the switches.
C9_NextByteEffect ==
    [][(lastCall'.op = "nextByte" /\ lastCall'.ok) =>
            /\ bitCursor' = 0
            /\ accumulators' = <<0, 0, 0>>
            /\ pulses' = <<>>
            /\ UNCHANGED <<lfsrTx, lfsrRx, isSynced, switches>>]_vars

\* next-byte accepted after a desynchronized unit of changed switches
C9_Witness ==
    /\ Accepted("nextByte")
    /\ bitCursor = 0
    /\ ~isSynced
    /\ switches # DefaultSwitches
    /\ lfsrTx = StepN(DEFAULT_SEED, 8)

\* C10: the tx keystream bits recorded for a unit are the output bits of a
\* generator seeded with the default seed and clocked through all units so far
\* (bits 9 .. 16 for the second unit); likewise for rx while synchronized.
C10_ByteContinuity ==
    LET done == 8 * bytesDone
        stream == Keystream(DEFAULT_SEED, done + Len(pulses))
    IN  \A i \in 1 .. Len(pulses) :
            /\ pulses[i].lfsrTxBit = stream[done + i]
            /\ isSynced => pulses[i].lfsrRxBit = stream[done + i]

\* the second unit complete with no desynchronization, its keystream unlike
\* the first unit's
C10_Witness ==
    /\ bytesDone = 1
    /\ bitCursor = 8
    /\ isSynced
    /\ Len(pulses) = 8
    /\ \E i \in 1 .. 8 :
          pulses[i].lfsrTxBit # Keystream(DEFAULT_SEED, 8)[i]

\* C11: reset is accepted in every state, and the step that performs it ends
\* with tx = rx = 0b10110011100011110000111110000011, cursor 0, the three
\* accumulators 0, the history empty and the synchronization flag true.
C11_ResetEffect ==
    [][(lastCall'.op = "reset") =>
            /\ lastCall'.ok
            /\ lfsrTx' = FromBinary(<<1,0,1,1, 0,0,1,1, 1,0,0,0, 1,1,1,1,
                                      0,0,0,0, 1,1,1,1, 1,0,0,0, 0,0,1,1>>)
            /\ lfsrRx' = lfsrTx'
            /\ bitCursor' = 0
            /\ accumulators' = <<0, 0, 0>>
            /\ pulses' = <<>>
            /\ isSynced']_vars

\* a reset just performed
C11_Witness ==
    /\ Accepted("reset")
    /\ lfsrTx = DEFAULT_SEED
    /\ lfsrRx = DEFAULT_SEED
    /\ bitCursor = 0
    /\ pulses = <<>>
    /\ isSynced

\* C12 as claimed: after reset all eight switches are 0.
C12_ResetZeroesSwitches ==
    Accepted("reset") => \A i \in 0 .. 7 : switches[i] = 0

\* C12 as the code has it: after reset the switches hold the initial byte
\* [0, 1, 0, 0, 0, 0, 0, 1] (0x41), whatever they held before.
C12_ResetRestoresSwitches ==
    [][(lastCall'.op = "reset") =>
            switches' = [i \in 0 .. 7 |-> IF i = 1 \/ i = 7 THEN 1 ELSE 0]]_vars

\* a reset just performed, the switches reading 0x41
C12_Witness ==
    /\ Accepted("reset")
    /\ messageByte = 65
    /\ switches[1] = 1
    /\ switches[7] = 1

\* C13: the synchronization flag goes from true to false only in an accepted
\* desynchronize and from false to true only in a reset; pulses, next-byte and
\* switch toggles leave it as it is.
C13_FlagOnlyExplicit ==
    [][/\ (isSynced /\ ~isSynced') =>
              lastCall' = [op |-> "desync", ok |-> TRUE]
       /\ (~isSynced /\ isSynced') =>
              lastCall' = [op |-> "reset", ok |-> TRUE]
       /\ (lastCall'.op \in {"pulse", "nextByte", "toggle"}) =>
              isSynced' = isSynced]_vars

\* the flag still false after a desynchronized unit and an accepted next-byte
C13_Witness ==
    /\ ~isSynced
    /\ Accepted("nextByte")
    /\ bytesDone = 1
    /\ lfsrRx = StepN(lfsrTx, 3)

\* C14: the bit cursor is an integer in 0 .. 8 in every reachable state.
C14_CursorRange == bitCursor \in 0 .. 8

\* the cursor at 8 in the second unit, a further pulse having been refused
C14_Witness ==
    /\ bitCursor = 8
    /\ bytesDone = 1
    /\ Rejected("pulse")

\* bit i of a non-negative number
BitAt(n, i) == (n \div (2 ^ i)) % 2

\* the MSB-first packing of one field of the history records
RECURSIVE PackHistory(_, _)
PackHistory(records, field) ==
    IF records = <<>> THEN 0
    ELSE Head(records)[field] * (2 ^ (7 - Head(records).bitIndex))
            + PackHistory(Tail(records), field)

\* C15: the three accumulators stay within 0 .. 255, and with the cursor at
\* c < 8 their bits at the positions not yet processed, 0 .. 7 - c, are 0.
C15_UnprocessedBitsZero ==
    \A a \in {originalByte, encryptedByte, decryptedByte} :
        /\ a \in 0 .. 255
        /\ bitCursor < 8 => \A i \in 0 .. 7 - bitCursor : BitAt(a, i) = 0

\* three bits of the second unit sent, each accumulator with a processed bit set
C15_Witness ==
    /\ bitCursor = 3
    /\ bytesDone = 1
    /\ originalByte >= 32
    /\ encryptedByte >= 32
    /\ decryptedByte >= 32

\* C16: the history has exactly cursor records, record i has bitIndex i
\* (counting from 0), and each accumulator is the MSB-first packing of its
\* bit of the records.
C16_HistoryConsistent ==
    /\ Len(pulses) = bitCursor
    /\ \A i \in 1 .. Len(pulses) : pulses[i].bitIndex = i - 1
    /\ originalByte = PackHistory(pulses, "messageBit")
    /\ encryptedByte = PackHistory(pulses, "encryptedBit")
    /\ decryptedByte = PackHistory(pulses, "decryptedBit")

\* a complete desynchronized unit whose three bytes all differ
C16_Witness ==
    /\ bitCursor = 8
    /\ Len(pulses) = 8
    /\ ~isSynced
    /\ decryptedByte # originalByte
    /\ encryptedByte # originalByte
    /\ encryptedByte # decryptedByte

\* C17: an accepted pulse at cursor c reads p = switches[c], clocks tx once
\* and rx once, takes e = p XOR k_tx and d = e XOR k_rx from their output
\* bits, appends the record of c, p, k_tx, e, k_rx, d, and moves the cursor to
\* c + 1; the switches and the synchronization flag stay as they are.
C17_PulseEffect ==
    [][(lastCall' = [op |-> "pulse", ok |-> TRUE]) =>
            LET c == bitCursor
                p == switches[c]
                tx == importedStep(lfsrTx)
                rx == importedStep(lfsrRx)
                e == IF p = tx.outputBit THEN 0 ELSE 1
                d == IF e = rx.outputBit THEN 0 ELSE 1
            IN  /\ c < 8
                /\ lfsrTx' = tx.newState
                /\ lfsrRx' = rx.newState
                /\ pulses' = pulses \o
                      <<[bitIndex |-> c, messageBit |-> p,
                         lfsrTxBit |-> tx.outputBit, encryptedBit |-> e,
                         lfsrRxBit |-> rx.outputBit, decryptedBit |-> d]>>
                /\ bitCursor' = c + 1
                /\ UNCHANGED <<switches, isSynced>>]_vars

\* a pulse accepted in a desynchronized unit, its decrypted bit wrong
C17_Witness ==
    /\ Accepted("pulse")
    /\ ~isSynced
    /\ bitCursor = 4
    /\ Len(pulses) = 4
    /\ pulses[4].bitIndex = 3
    /\ pulses[4].decryptedBit # pulses[4].messageBit

\* C18: whatever the sequence of handlePulse invocations, committed one by
\* one or several from one render, the accepted invocations advance tx, rx,
\* the cursor and the history by the same count.
C18_InvocationsAtomic ==
    [][(lastCall' = [op |-> "pulse", ok |-> TRUE]) =>
            LET n == bitCursor' - bitCursor
            IN  /\ n >= 1
                /\ Len(pulses') = Len(pulses) + n
                /\ lfsrTx' = StepN(lfsrTx, n)
                /\ lfsrRx' = StepN(lfsrRx, n)]_vars

\* C19: generators constructed with the same seed and stepped the same
\* number of times since construction or reset hold the same register, the
\* same last output and feedback bit and the same output history, whatever
\* else was done to them in between.
C19_Deterministic ==
    \A a, b \in Instances :
        generators[a].stepCount = generators[b].stepCount =>
            /\ generators[a].state = generators[b].state
            /\ generators[a].lastOutput = generators[b].lastOutput
            /\ generators[a].lastFeedback = generators[b].lastFeedback
            /\ generators[a].outputStream = generators[b].outputStream

\* two generators at the same count, one by auto-run at another speed
C19_Witness ==
    /\ generators[1].stepCount = MaxSteps
    /\ generators[2].stepCount = MaxSteps
    /\ generators[1].isRunning
    /\ ~generators[2].isRunning
    /\ generators[1].speed # generators[2].speed
    /\ generators[1].state # initialSeed
    /\ Len(generators[2].outputStream) = MaxSteps
    /\ lastCall.op = "generatorReset" \/ lastCall.op = "tick"

Zero == [i \in 0 .. LFSR_SIZE - 1 |-> 0]

\* C20: lfsrStep of the all-zero register returns the all-zero register,
\* output bit 0 and feedback bit 0 in both shift directions, and a generator
\* constructed with seed 0 stays at 0 and has emitted only 0.
C20_ZeroFixedPoint ==
    /\ lfsrStep(Zero) = [newState |-> Zero, outputBit |-> 0, feedbackBit |-> 0]
    /\ lfsrStepShiftRight(Zero) =
            [newState |-> Zero, outputBit |-> 0, feedbackBit |-> 0]
    /\ (initialSeed = Zero) =>
            \A g \in Instances :
                /\ generators[g].state = Zero
                /\ generators[g].lastOutput \in {null, 0}
                /\ generators[g].lastFeedback \in {null, 0}
                /\ \A k \in 1 .. Len(generators[g].outputStream) :
                        generators[g].outputStream[k] = 0

\* a generator seeded with 0 after the most steps, still at 0
C20_Witness ==
    /\ initialSeed = Zero
    /\ variant = "shiftRight"
    /\ generators[1].stepCount = MaxSteps
    /\ generators[1].state = Zero
    /\ generators[1].lastOutput = 0
    /\ generators[1].lastFeedback = 0
    /\ Len(generators[1].outputStream) = MaxSteps

\* C21: the output history of a generator never holds more than 64 entries,
\* however many manual and auto-run steps were taken.
C21_HistoryBound ==
    \A g \in Instances : Len(generators[g].outputStream) <= 64

\* two steps past the cap, the last by auto-run, the history full
C21_Witness ==
    /\ generators[1].stepCount = 66
    /\ Len(generators[1].outputStream) = 64
    /\ Accepted("tick")

\* C22: after n steps since construction or reset the output history is the
\* last min(n, 64) output bits in the order produced, oldest first; past 64
\* steps exactly the oldest n - 64 have been evicted.
C22_HistoryFifo ==
    \A g \in Instances :
        LET n == generators[g].stepCount
            produced == Keystream(initialSeed, n)
            kept == IF n < 64 THEN n ELSE 64
        IN  generators[g].outputStream = SubSeq(produced, n - kept + 1, n)

\* 66 steps after a reset: the first two bits produced are gone, and the
\* history no longer starts with them
C22_Witness ==
    /\ generators[1].stepCount = 66
    /\ Len(generators[1].outputStream) = 64
    /\ generators[1].outputStream[64] = generators[1].lastOutput
    /\ SubSeq(generators[1].outputStream, 1, 2) # Keystream(initialSeed, 2)
    /\ Accepted("step")

\* C23: tx and rx seeded 0xB33C87E3, taps 1, 5, 6, 31, switches 01000001:
\* the flag is true in every state of the first unit, and after the 8 pulses
\* the cursor is 8 and the decrypted byte is 0x41, each decrypted bit being
\* the switch of its position.
C23_Scenario ==
    (/\ bytesDone = 0
     /\ switches = DefaultSwitches
     /\ LFSR_TAPS = <<1, 5, 6, 31>>
     /\ lfsrTx = StepN(ScenarioSeed, Len(pulses))
     /\ lfsrRx = StepN(ScenarioSeed, Len(pulses)))
        => /\ isSynced
           /\ bitCursor = Len(pulses)
           /\ Len(pulses) <= 8
           /\ \A i \in 1 .. Len(pulses) :
                  pulses[i].decryptedBit = switches[i - 1]
           /\ (Len(pulses) = 8) => decryptedByte = 65

\* the scenario after its eighth pulse
C23_Witness ==
    /\ bytesDone = 0
    /\ switches = DefaultSwitches
    /\ lfsrTx = StepN(ScenarioSeed, 8)
    /\ lfsrRx = StepN(ScenarioSeed, 8)
    /\ bitCursor = 8
    /\ decryptedByte = 65
    /\ originalByte = 65
    /\ encryptedByte # 65
    /\ Accepted("pulse")

\* a number within [0, 2^32)
InUint32(x) == x.hi \in 0 .. Half - 1 /\ x.lo \in 0 .. Half - 1

\* every register the state holds
registers == {lfsrTx, lfsrRx} \cup {generators[g].state : g \in Instances}

\* C24: for every register value, lfsrStep of either revision returns a
\* newState within [0, 2^32), never negative, and output and feedback bits
\* that are 0 or 1; its newState is the register the session and the
\* generators move to, so every register they hold is such a value.
C24_Unsigned ==
    \A s \in registers :
        LET left == lfsrStepNumber(ToUint32(s))
            right == lfsrStepShiftRightNumber(ToUint32(s))
        IN  /\ InUint32(left.newState)
            /\ InUint32(right.newState)
            /\ {left.outputBit, left.feedbackBit,
                right.outputBit, right.feedbackBit} \subseteq {0, 1}
            /\ Pattern(left.newState) = lfsrStep(s).newState
            /\ Pattern(right.newState) = lfsrStepShiftRight(s).newState

\* a generator whose next register has bit 31 set in both revisions: the
\* intermediate state << 1 and | (1 << 31) are negative there
C24_Witness ==
    /\ generators[1].stepCount > 64
    /\ generators[1].state[30] = 1
    /\ XorReduce([k \in 1 .. 4 |-> generators[1].state[LFSR_TAPS[k]]]) = 1
    /\ ShiftLeft(ToUint32(generators[1].state), 1).hi < 0
    /\ Accepted("tick")

\* C25: reset puts the register back to the seed of construction, and
\* applying a seed entered in the panel puts it to that seed; either way the
\* step counter is 0, the last output and feedback are null, the history is
\* empty, and the operation does not fail.
C25_ResetToSeed ==
    /\ [][(lastCall'.op = "generatorReset") =>
            /\ lastCall'.ok
            /\ generators'[1].state = initialSeed
            /\ generators'[1].stepCount = 0
            /\ generators'[1].lastOutput = null
            /\ generators'[1].lastFeedback = null
            /\ generators'[1].outputStream = <<>>]_vars
    /\ [][(lastCall'.op = "applySeed" /\ ~seedPanel.seedHex.nan) =>
            /\ lastCall'.ok
            /\ generators'[1].state = seedPanel.seedHex.value
            /\ generators'[1].stepCount = 0
            /\ generators'[1].lastOutput = null
            /\ generators'[1].lastFeedback = null
            /\ generators'[1].outputStream = <<>>]_vars

\* the sum of bits[i] * 2^i over 16 array elements from element `from`
RECURSIVE WeightedSum(_, _, _)
WeightedSum(bits, from, n) ==
    IF n = 0 THEN 0
    ELSE bits[from + n] * (2 ^ (n - 1)) + WeightedSum(bits, from, n - 1)

\* C26: for every register value, toBitArray returns 32 values, each 0 or
\* 1, element i being bit i of the value (element 0 the least significant),
\* and the sum of bits[i] * 2^i is the unsigned value again.
C26_BitArrayRoundTrip ==
    \A s \in registers :
        LET value == ToUint32(s)
            bits == toBitArray(value)
        IN  /\ Len(bits) = 32
            /\ \A i \in 0 .. 31 :
                  /\ bits[i + 1] \in {0, 1}
                  /\ bits[i + 1] = s[i]
                  /\ bits[i + 1] =
                        IF i < 16 THEN (value.lo \div (2 ^ i)) % 2
                        ELSE (value.hi \div (2 ^ (i - 16))) % 2
            /\ value.lo = WeightedSum(bits, 0, 16)
            /\ value.hi = WeightedSum(bits, 16, 16)

\* a register with bit 31 set and bit 0 clear, read as an array
C26_Witness ==
    /\ generators[1].stepCount = 40
    /\ generators[1].state[31] = 1
    /\ generators[1].state[0] = 0
    /\ toBitArray(ToUint32(generators[1].state))[32] = 1
    /\ toBitArray(ToUint32(generators[1].state))[1] = 0
    /\ ToUint32(generators[1].state).hi >= 32768

\* 32-bit bit reversal
Rev(s) == [i \in 0 .. 31 |-> s[31 - i]]

C28_DesyncBreaksRecovery ==
    (~isSynced /\ bitCursor = 8) =>
        /\ originalByte = messageByte
        /\ decryptedByte # originalByte
        /\ \E k \in 3 .. 10 : lfsrRx = StepN(DEFAULT_SEED, 8 + k)

\* the byte 0xFF sent after the longest desynchronization
C28_Witness ==
    /\ ~isSynced
    /\ bitCursor = 8
    /\ messageByte = 255
    /\ originalByte = 255
    /\ decryptedByte # 255
    /\ lfsrTx = StepN(DEFAULT_SEED, 8)
    /\ lfsrRx = StepN(DEFAULT_SEED, 18)

\* C29: for every register value s the shift-left lfsrStep returns
\* feedbackBit = bit 1 XOR bit 5 XOR bit 6 XOR bit 31 of s, outputBit = bit
\* 31 of s and newState = (2 * s mod 2^32) + feedbackBit: bits 1 .. 31 of
\* newState are bits 0 .. 30 of s and bit 0 is the feedback bit.
C29_LeftReference ==
    \A s \in registers :
        LET value == ToUint32(s)
            number == lfsrStepNumber(value)
            result == lfsrStep(s)
            parity == (s[1] + s[5] + s[6] + s[31]) % 2
            doubledLo == (2 * value.lo) % Half
            doubledHi == (2 * value.hi + (2 * value.lo) \div Half) % Half
        IN  /\ result.feedbackBit = parity
            /\ result.outputBit = s[31]
            /\ \A i \in 1 .. 31 : result.newState[i] = s[i - 1]
            /\ result.newState[0] = parity
            /\ number.feedbackBit = parity
            /\ number.outputBit = s[31]
            /\ number.newState = [hi |-> doubledHi, lo |-> doubledLo + parity]
            /\ Pattern(number.newState) = result.newState

\* a register with bit 31 and the feedback set: the doubling overflows and
\* the feedback is added
C29_Witness ==
    /\ variant = "shiftLeft"
    /\ generators[1].stepCount > 32
    /\ generators[1].lastOutput = 1
    /\ generators[1].lastFeedback = 1
    /\ generators[1].state[0] = 1
    /\ generators[1].state[31] = 1
    /\ lfsrStep(generators[1].state).feedbackBit = 1

Unit(i) == [j \in 0 .. LFSR_SIZE - 1 |-> IF j = i THEN 1 ELSE 0]

\* a register with bit i inverted
Flip(s, i) == [s EXCEPT ![i] = 1 - s[i]]

\* the register a shift-left successor came from: bits 0 .. 30 are its bits
\* 1 .. 31, and the expelled bit 31 is its bit 0 XOR its bits 2, 6 and 7
\* (the taps 1, 5, 6 one position up)
Predecessor(next) ==
    [i \in 0 .. LFSR_SIZE - 1 |->
        IF i = 31 THEN (next[0] + next[2] + next[6] + next[7]) % 2
        ELSE next[i + 1]]

\* C31: the shift-left lfsrStep is injective: the register stepped from is
\* recovered from the successor, for the 32 one-bit registers (a basis, the
\* step being linear) and for every register held; registers one bit apart
\* have different successors; no nonzero register steps to 0; and a shift-left
\* generator constructed with a nonzero seed never holds 0.
C31_LeftInjective ==
    /\ \A i \in 0 .. 31 :
          /\ Predecessor(lfsrStep(Unit(i)).newState) = Unit(i)
          /\ lfsrStep(Unit(i)).newState # Zero
    /\ \A s \in registers :
          /\ Predecessor(lfsrStep(s).newState) = s
          /\ (s # Zero) => lfsrStep(s).newState # Zero
          /\ \A i \in 0 .. 31 :
                lfsrStep(Flip(s, i)).newState # lfsrStep(s).newState
    /\ (variant = "shiftLeft" /\ initialSeed # Zero) =>
            \A g \in Instances : generators[g].state # Zero

\* a shift-left generator constructed with bit 31 alone set, the bit its
\* first step expels, still nonzero past the cap of its history
C31_Witness ==
    /\ variant = "shiftLeft"
    /\ initialSeed = Unit(31)
    /\ generators[1].stepCount > 64
    /\ generators[1].state # Zero
    /\ generators[1].state # initialSeed
    /\ Predecessor(lfsrStep(initialSeed).newState) = initialSeed

\* C32: for every nonzero register s the shift-right lfsrStep returns a
\* nonzero newState, and a shift-right generator constructed with a nonzero
\* seed never holds the all-zero register.
C32_RightNonzero ==
    /\ \A s \in registers :
          (s # Zero) => lfsrStepShiftRight(s).newState # Zero
    /\ (variant = "shiftRight" /\ initialSeed # Zero) =>
            \A g \in Instances : generators[g].state # Zero

\* C33: through any sequence of steps (manual or auto-run) and resets, a
\* generator with step counter n holds the register lfsrStep^n(seed); its last
\* output and feedback are null exactly when n = 0 and otherwise are the
\* output and feedback bit of the step from lfsrStep^(n-1)(seed); its history
\* has min(n, 64) entries, the last one being the last output. The counter
\* goes up by 1 in every step, to 0 in a reset, and changes in nothing else.
C33_Bookkeeping ==
    /\ [](\A g \in Instances :
            LET gen == generators[g]
                n == gen.stepCount
            IN  /\ n >= 0
                /\ gen.state = StepN(initialSeed, n)
                /\ (gen.lastOutput = null) <=> (n = 0)
                /\ (gen.lastFeedback = null) <=> (n = 0)
                /\ Len(gen.outputStream) = (IF n < 64 THEN n ELSE 64)
                /\ (n > 0) =>
                      LET last == importedStep(StepN(initialSeed, n - 1))
                      IN  /\ gen.lastOutput = last.outputBit
                          /\ gen.lastFeedback = last.feedbackBit
                          /\ gen.outputStream[Len(gen.outputStream)]
                                = gen.lastOutput)
    /\ [][\A g \in Instances :
            generators'[g].stepCount =
                IF generators'[g] = generators[g] THEN generators[g].stepCount
                ELSE IF lastCall'.op \in {"step", "tick"}
                     THEN generators[g].stepCount + 1
                ELSE IF lastCall'.op = "generatorReset" THEN 0
                ELSE generators[g].stepCount]_vars

\* 65 steps, the last by auto-run, with unlike last bits and a full history
C33_Witness ==
    /\ generators[1].stepCount = 65
    /\ generators[1].state # initialSeed
    /\ generators[1].lastOutput \in {0, 1}
    /\ generators[1].lastFeedback \in {0, 1}
    /\ generators[1].lastOutput # generators[1].lastFeedback
    /\ Len(generators[1].outputStream) = 64
    /\ Accepted("tick")

\* C34: nothing is in flight once auto-run is off: a generator that is not
\* running has no armed interval and a null handle, so from the toggle that
\* stops it, or from a reset, until auto-run is turned on again no timer tick
\* changes it; its register, counter and history change only by an accepted
\* manual step or a reset. A reset leaves the generator at its seed with
\* counter 0, stopped, with nothing armed.
C34_NothingInFlight ==
    /\ [](\A g \in Instances :
            ~generators[g].isRunning =>
                /\ generators[g].timers = {}
                /\ generators[g].intervalRef = null)
    /\ [][\A g \in Instances :
            (~generators[g].isRunning
                /\ <<generators'[g].state, generators'[g].stepCount,
                     generators'[g].outputStream>>
                   # <<generators[g].state, generators[g].stepCount,
                       generators[g].outputStream>>)
              => \/ lastCall' = [op |-> "step", ok |-> TRUE]
                 \/ lastCall'.op = "generatorReset"]_vars
    /\ [][(lastCall'.op = "generatorReset") =>
            \E g \in Instances :
                /\ generators'[g].state = initialSeed
                /\ generators'[g].stepCount = 0
                /\ ~generators'[g].isRunning
                /\ generators'[g].timers = {}
                /\ \A h \in Instances \ {g} :
                      generators'[h] = generators[h]]_vars

\* a generator stopped by the toggle after steps taken by its interval at a
\* changed speed, nothing armed, while the other generator is still running
C34_Witness ==
    /\ Accepted("toggleAutoRun")
    /\ ~generators[1].isRunning
    /\ generators[1].stepCount = MaxSteps
    /\ generators[1].speed # DefaultSpeed
    /\ generators[1].timers = {}
    /\ generators[2].isRunning
    /\ generators[2].timers # {}

\* C35: a generator has at most one armed interval at any time: exactly one,
\* held by intervalRef and with the current speed as its period, while it is
\* running, and none while it is not; a speed change while running replaces
\* the interval; and a tick advances the counter of one generator by one.
C35_OneTimer ==
    /\ [](\A g \in Instances :
            /\ Cardinality(generators[g].timers) <= 1
            /\ generators[g].isRunning =>
                  generators[g].timers =
                      {[id |-> generators[g].intervalRef,
                        period |-> generators[g].speed]})
    /\ [][(lastCall'.op = "tick") =>
            \E g \in Instances :
                /\ generators[g].isRunning
                /\ generators'[g].stepCount = generators[g].stepCount + 1
                /\ \A h \in Instances \ {g} :
                      generators'[h] = generators[h]]_vars

\* a running generator just after a speed change, one interval armed with the
\* new period, steps already taken at the old one
C35_Witness ==
    /\ Accepted("setSpeed")
    /\ generators[1].isRunning
    /\ generators[1].stepCount > 0
    /\ generators[1].speed = 50
    /\ generators[1].timers = {[id |-> generators[1].intervalRef, period |-> 50]}

\* C36: a send of the animated component runs to its end: while it is
\* simulating the page is up and its one interval is armed with 0 .. 8 steps
\* shown, and every tick shows one more step or ends the send; the tick that
\* ends it leaves no interval armed and the encrypted and decrypted byte equal
\* to the MSB-first packing of the 8 precomputed bits; the accepted send moves
\* tx and rx 8 clocks; and a send, desynchronize or toggle fired while
\* simulating is rejected and changes nothing.
C36_SendCompletes ==
    /\ [](animation.isSimulating =>
            /\ ~animation.crashed
            /\ \E timer \in animation.timers :
                  /\ animation.timers = {timer}
                  /\ timer.id = animation.intervalRef
                  /\ timer.stepIdx \in 0 .. 8)
    /\ [][(animation.isSimulating /\ lastCall'.op = "animationTick") =>
            /\ lastCall'.ok
            /\ \/ animation'.currentStep = animation.currentStep + 1
               \/ ~animation'.isSimulating]_vars
    /\ [][(animation.isSimulating /\ ~animation'.isSimulating
                /\ lastCall'.op = "animationTick") =>
            /\ animation'.timers = {}
            /\ Len(animation'.steps) = 8
            /\ encryptedByte' = PackHistory(animation'.steps, "encryptedBit")
            /\ decryptedByte' = PackHistory(animation'.steps, "decryptedBit")
         ]_vars
    /\ [][(lastCall' = [op |-> "send", ok |-> TRUE]) =>
            /\ ~animation.isSimulating
            /\ lfsrTx' = StepN(lfsrTx, 8)
            /\ lfsrRx' = StepN(lfsrRx, 8)]_vars
    /\ [][(animation.isSimulating
                /\ lastCall'.op \in {"send", "desync", "toggle"}) =>
            ~lastCall'.ok /\ UNCHANGED animated]_vars

\* C37: a reset is accepted at any point of a send and cancels it: the step
\* that performs it leaves no interval armed and the session in its initial
\* state (tx = rx = default seed, no steps, current step -1, both bytes 0, not
\* simulating, synchronized); a tick fires only for a send in progress, so
\* from the reset to the next send no tick changes the current step or the
\* bytes.
C37_ResetCancels ==
    /\ [][(lastCall'.op = "reset") =>
            /\ lastCall'.ok
            /\ animation'.timers = {}
            /\ lfsrTx' = DEFAULT_SEED
            /\ lfsrRx' = DEFAULT_SEED
            /\ animation'.steps = <<>>
            /\ animation'.currentStep = -1
            /\ encryptedByte' = 0
            /\ decryptedByte' = 0
            /\ ~animation'.isSimulating
            /\ isSynced']_vars
    /\ [](~animation.isSimulating => animation.timers = {})
    /\ [][(lastCall'.op = "animationTick") => animation.isSimulating]_vars
    /\ [][(~animation.isSimulating
                /\ <<animation'.currentStep, encryptedByte', decryptedByte'>>
                   # <<animation.currentStep, encryptedByte, decryptedByte>>)
            => lastCall'.op \in {"send", "reset"}]_vars

\* a reset performed while a desynchronized send was being animated
C37_Witness ==
    /\ Accepted("reset")
    /\ animation.intervalRef # null
    /\ animation.timers = {}
    /\ ~animation.isSimulating
    /\ ~animation.crashed
    /\ animation.currentStep = -1
    /\ lfsrTx = DEFAULT_SEED
    /\ lfsrRx = DEFAULT_SEED
    /\ isSynced

\* a ^ b on bytes
XorByte(a, b) ==
    LET bits == [i \in 0 .. 7 |-> (BitAt(a, i) + BitAt(b, i)) % 2]
    IN  SumBits(bits, 7)

\* C38: two sessions given the same pulses, next-bytes, desynchronizations
\* (same extra step count) and resets, whatever their switches hold, have the
\* same tx and rx registers, cursor and synchronization flag, and histories
\* of the same length whose records agree in bitIndex, lfsrTxBit and
\* lfsrRxBit; encryptedByte XOR originalByte is the same in both.
C38_KeystreamIndependent ==
    /\ twin.lfsrTx = lfsrTx
    /\ twin.lfsrRx = lfsrRx
    /\ twin.bitCursor = bitCursor
    /\ twin.isSynced = isSynced
    /\ Len(twin.pulses) = Len(pulses)
    /\ \A i \in 1 .. Len(pulses) :
          /\ twin.pulses[i].bitIndex = pulses[i].bitIndex
          /\ twin.pulses[i].lfsrTxBit = pulses[i].lfsrTxBit
          /\ twin.pulses[i].lfsrRxBit = pulses[i].lfsrRxBit
    /\ XorByte(twin.encryptedByte, twin.originalByte)
          = XorByte(encryptedByte, originalByte)

\* two desynchronized sessions after the second unit, their plaintexts,
\* ciphertexts and decrypted bytes all different, every record differing in
\* its message bit or agreeing in it
C38_Witness ==
    /\ bitCursor = 8
    /\ bytesDone = 1
    /\ ~isSynced
    /\ twin.switches # switches
    /\ twin.originalByte # originalByte
    /\ twin.encryptedByte # encryptedByte
    /\ twin.decryptedByte # decryptedByte
    /\ \E i \in 1 .. 8 : twin.pulses[i].messageBit # pulses[i].messageBit
    /\ \E i \in 1 .. 8 : twin.pulses[i].encryptedBit # pulses[i].encryptedBit
    /\ \E i \in 1 .. 8 : twin.pulses[i].decryptedBit # pulses[i].decryptedBit
    /\ XorByte(encryptedByte, originalByte) # 0

\* the register n shift-left clocks earlier
RECURSIVE PredecessorN(_, _)
PredecessorN(state, n) ==
    IF n = 0 THEN state ELSE PredecessorN(Predecessor(state), n - 1)

\* state >>> 24
TopByte(state) == SumBits([i \in 0 .. 7 |-> state[24 + i]], 7)

\* C39: with the shift-left generator, if tx held t at cursor 0 (t is the
\* register that 8 clocks take to the present one, the step being
\* injective), then after the 8 pulses encryptedByte is originalByte XOR
\* (t >>> 24), the i-th record's keystream bit being bit 31 - i of t; from
\* the seed 0xB38F0F83 with plaintext 0x41 the encrypted byte is 0xF2.
C39_TopByteKeystream ==
    (variant = "shiftLeft" /\ bitCursor = 8) =>
        LET t == PredecessorN(lfsrTx, 8)
        IN  /\ StepN(t, 8) = lfsrTx
            /\ encryptedByte = XorByte(originalByte, TopByte(t))
            /\ \A i \in 1 .. 8 : pulses[i].lfsrTxBit = t[32 - i]
            /\ (t = DEFAULT_SEED /\ originalByte = 65) => encryptedByte = 242

\* the default seed's first unit with the letter 'A' sent
C39_Witness ==
    /\ variant = "shiftLeft"
    /\ bitCursor = 8
    /\ bytesDone = 0
    /\ PredecessorN(lfsrTx, 8) = DEFAULT_SEED
    /\ TopByte(DEFAULT_SEED) = 179
    /\ switches = DefaultSwitches
    /\ originalByte = 65
    /\ encryptedByte = 242
    /\ Accepted("pulse")

============================================================================
